---------------------------- MODULE Spec2Model ----------------------------
(***************************************************************************)
(* A model of xyalign/bam.py: the windowed depth / mapping-quality scan    *)
(* (get_length, traverse_bam_fetch), the read-group fastq extraction       *)
(* (bam_to_fastq) and the sex-chromosome swap                              *)
(* (switch_sex_chromosomes_bam_sambamba and its _output_temps variant).    *)
(*                                                                         *)
(* One call of one of these functions is followed from its entry to its    *)
(* return or to the exception that ends it.  traverse_bam_fetch is stepped *)
(* statement group by statement group, because the order of its fetches,   *)
(* appends and progress lines is part of what is verified, and it is       *)
(* called a second time on the same source once the first call returned.   *)
(***************************************************************************)
EXTENDS Integers, Sequences, FiniteSets, TLC

VARIABLES
    fn,                 \* the function of bam.py being called
    pc,                 \* position inside that function
    error,              \* exception that ended the call, or "none"
    \* ---- traverse_bam_fetch: arguments
    samfile,            \* the pysam AlignmentFile: references, lengths, reads
    chrom,
    window_size,
    \* ---- traverse_bam_fetch: locals
    chr_len,
    num_windows,
    last_window_len,
    window_id,
    window,             \* the loop variable of `for window in range(...)`
    chr_list,
    start_list,
    stop_list,
    depth_list,
    mapq_list,
    start,
    end,
    mapq,
    total_read_length,
    \* ---- traverse_bam_fetch: what the caller and the source can observe
    fetch_log,          \* the fetch calls received by the source, in order
    stdout,             \* the progress lines printed, in order
    stdout_observed,    \* whether anybody reads stdout during this call
    seen,               \* the progress lines somebody read
    results,            \* the returned table, or NoTable
    call,               \* 1 for the first call, 2 for the repeated one
    first_results,      \* the table the first call returned
    \* ---- bam_to_fastq
    single,
    rg_lines,           \* the lines of full_rg.list still to be read
    command_line,       \* the local command_line: the command built last
    invoked,            \* the commands handed to subprocess.call, in order
    ortab,              \* the rows written to rg_fastq_key.list
    fq_return,
    \* ---- switch_sex_chromosomes_bam_sambamba(_output_temps)
    pg_header_dict,
    cram,
    pg_line,
    header_sam,         \* the lines appended to header.sam by the function
    sw_invoked,
    sw_return

scan_vars == <<samfile, chrom, window_size, chr_len, num_windows,
               last_window_len, window_id, window, chr_list, start_list,
               stop_list, depth_list, mapq_list, start, end, mapq,
               total_read_length, fetch_log, stdout, stdout_observed, seen,
               results, call, first_results>>

fq_vars == <<single, rg_lines, command_line, invoked, ortab, fq_return>>

sw_vars == <<pg_header_dict, cram, pg_line, header_sam, sw_invoked, sw_return>>

vars == <<fn, pc, error, scan_vars, fq_vars, sw_vars>>

-----------------------------------------------------------------------------
(* Bounds of the model. *)

\* chromosome lengths 0 .. MaxLen are scanned
MaxLen == 4

\* window sizes 1 .. MaxWin are used
MaxWin == 2

\* an alignment source holds at most MaxReads records
MaxReads == 2

\* the length of the second declared reference, chr1
Chr1Len == 1

\* full_rg.list holds at most MaxRGLines lines
MaxRGLines == 2

-----------------------------------------------------------------------------
(* Values. *)

\* a local variable that no statement has assigned yet
Unbound == -1

\* Python's None, and the absence of a returned value
NoTable == [none |-> TRUE]

\* numpy's nan, the mean of an empty array
NaN == [num |-> 0, den |-> 0]

RECURSIVE GCD(_, _)
GCD(a, b) == IF b = 0 THEN a ELSE GCD(b, a % b)

\* the value of the true division n / d (from __future__ import division)
TrueDiv(n, d) == LET g == GCD(n, d) IN [num |-> n \div g, den |-> d \div g]

RECURSIVE SumSeq(_)
SumSeq(s) == IF s = <<>> THEN 0 ELSE Head(s) + SumSeq(Tail(s))


-----------------------------------------------------------------------------
(* The alignment source (pysam.AlignmentFile) and its records. *)

\* the references the source declares, in header order
References == <<"chr1", "chrX">>

\* the chromosome names a caller passes; "chrUn" is declared by no source
Chromosomes == {"chr1", "chrX", "chrUn"}

\* the references that carry reads
ReadRefs == {"chrX"}

\* reference positions at which a read starts
ReadStarts == {0, 1}

\* the number of reference bases a read covers
ReadSpans == {2}

\* (inferred query length, mapping quality, is_secondary, is_supplementary)
ReadKinds ==
    { <<2, 20, FALSE, FALSE>>, <<3, 60, FALSE, FALSE>>,
      <<3, 20, TRUE, FALSE>>, <<2, 60, FALSE, TRUE>> }

AlignedSegments ==
    { [ref |-> r, pos |-> p, span |-> n, query_length |-> k[1],
       mapping_quality |-> k[2], is_secondary |-> k[3],
       is_supplementary |-> k[4]] :
        r \in ReadRefs, p \in ReadStarts, n \in ReadSpans, k \in ReadKinds }

\* a coordinate-sorted file of at most MaxReads records
ReadFiles ==
    { s \in UNION { [1 .. n -> AlignedSegments] : n \in 0 .. MaxReads } :
        \A i \in 1 .. Len(s) - 1 : s[i].pos <= s[i + 1].pos }

\* the sources a scan is run on: chrX has length L, chr1 has length Chr1Len
AlignmentFiles ==
    { [references |-> References, lengths |-> <<Chr1Len, L>>, reads |-> rs] :
        L \in 0 .. MaxLen, rs \in ReadFiles }

\* the source of the worked example: chrX of length 1000, and no reads
ExampleFile ==
    [references |-> References, lengths |-> <<Chr1Len, 1000>>, reads |-> <<>>]

\* the (samfile, window_size) pairs traverse_bam_fetch is called with: every
\* small source with every small window size, and the worked example with
\* windows of 300
ScanArguments ==
    { [samfile |-> f, window_size |-> W] :
        f \in AlignmentFiles, W \in 1 .. MaxWin }
    \cup { [samfile |-> ExampleFile, window_size |-> 300] }

\* dict(zip(keys, vals)): a later pair replaces an earlier one with its key
DictOfZip(keys, vals) ==
    LET n == IF Len(keys) < Len(vals) THEN Len(keys) ELSE Len(vals)
        last(k) == CHOOSE i \in 1 .. n :
                      /\ keys[i] = k
                      /\ \A j \in 1 .. n : keys[j] = k => j <= i
    IN  [k \in { keys[i] : i \in 1 .. n } |-> vals[last(k)]]

\* get_length: the dictionary the lookup `lengths[chrom]` is made in
get_length_dict(bamfile) == DictOfZip(bamfile.references, bamfile.lengths)

\* lengths.get(chrom, 0) in place of lengths[chrom]
get_length_or_zero(bamfile, chr) ==
    LET lengths == get_length_dict(bamfile)
    IN  [raises |-> "none",
         value |-> IF chr \in DOMAIN lengths THEN lengths[chr] ELSE 0]

\* get_length: `return lengths[chrom]`, which raises KeyError for a key the
\* dictionary does not hold
get_length(bamfile, chr) ==
    LET lengths == get_length_dict(bamfile)
    IN  IF chr \in DOMAIN lengths
        THEN [raises |-> "none", value |-> lengths[chr]]
        ELSE [raises |-> "KeyError", value |-> Unbound]

\* a fetch that does not rewind the file: a second pass finds it exhausted
FetchWithoutRewind(src, chr, s, e) ==
    IF call = 2 THEN <<>>
    ELSE SelectSeq([i \in 1 .. Len(src.reads) |-> i],
                   LAMBDA i : /\ src.reads[i].ref = chr
                              /\ src.reads[i].pos < e
                              /\ src.reads[i].pos + src.reads[i].span > s)

\* samfile.fetch(chrom, start, end): the records of `chr` that overlap the
\* half-open interval [s, e), in file order, by their index in the file
Fetch(src, chr, s, e) ==
    SelectSeq([i \in 1 .. Len(src.reads) |-> i],
              LAMBDA i : /\ src.reads[i].ref = chr
                         /\ src.reads[i].pos < e
                         /\ src.reads[i].pos + src.reads[i].span > s)

\* the first `if` alone: supplementary records are counted
IsCountedUnlessSecondary(read) ==
    IF read.is_secondary = FALSE THEN TRUE ELSE FALSE

\* the two `if` statements that guard the accumulation
IsCounted(read) ==
    IF read.is_secondary = FALSE
    THEN IF read.is_supplementary = FALSE THEN TRUE ELSE FALSE
    ELSE FALSE

\* the body of `for read in samfile.fetch(...)`, run over the fetched records
RECURSIVE Accumulate(_, _, _)
Accumulate(src, idxs, acc) ==
    IF idxs = <<>> THEN acc
    ELSE LET read == src.reads[Head(idxs)]
         IN  Accumulate(src, Tail(idxs),
                IF IsCounted(read)
                THEN [total_read_length |->
                          acc.total_read_length + read.query_length,
                      mapq |-> Append(acc.mapq, read.mapping_quality)]
                ELSE acc)

\* a loop that counts a record in the window it starts in only
AggregateWindowOnce(src, chr, s, e) ==
    Accumulate(src,
               SelectSeq(Fetch(src, chr, s, e),
                         LAMBDA i : src.reads[i].pos >= s),
               [total_read_length |-> 0, mapq |-> <<>>])

\* one window's fetch and inner loop: the locals it leaves behind
AggregateWindow(src, chr, s, e) ==
    Accumulate(src, Fetch(src, chr, s, e),
               [total_read_length |-> 0, mapq |-> <<>>])

\* np.mean(np.asarray(mapq))
NpMean(qs) == IF qs = <<>> THEN NaN ELSE TrueDiv(SumSeq(qs), Len(qs))

\* num_windows = chr_len // window_size + 1
NumWindows(L, W) == L \div W + 1

\* the remainder taken against the window size
LastWindowLenBySize(L, W, N) == IF L % W = 0 THEN W ELSE L % W

\* the if / else that sets last_window_len
LastWindowLen(L, W, N) == IF L % N = 0 THEN W ELSE L % N

\* the advance of `end` after window_id was incremented
NextEnd(e, id, N, W, last) == IF id = N - 1 THEN e + last ELSE e + W

\* start moved by last_window_len, as end is, before the last window
NextStartByLast(s, id, N, W, last) == IF id = N - 1 THEN s + last ELSE s + W

\* start left where it is
NextStartStuck(s, id, N, W, last) == s

\* the advance of `start` after window_id was incremented
NextStart(s, id, N, W, last) == IF id = N - 1 THEN s + W ELSE s + W

\* the value range(0, num_windows) hands to `window` next
NextOfRange(w) == IF w = Unbound THEN 0 ELSE w + 1

\* pd.DataFrame({...})[["chrom", "start", "stop", "depth", "mapq"]]
DataFrame(chroms, starts, stops, depths, mapqs) ==
    [i \in 1 .. Len(chroms) |->
        [chrom |-> chroms[i], start |-> starts[i], stop |-> stops[i],
         depth |-> depths[i], mapq |-> mapqs[i]]]

\* the line print() writes after a window
ProgressLine(id, N, chr) == [window_id |-> id, num_windows |-> N, chrom |-> chr]

-----------------------------------------------------------------------------
(* traverse_bam_fetch(samfile, chrom, window_size) *)

\* the locals of a call that has not run a statement yet
ScanEntry ==
    /\ chr_len = Unbound
    /\ num_windows = Unbound
    /\ last_window_len = Unbound
    /\ window_id = Unbound
    /\ window = Unbound
    /\ chr_list = <<>>
    /\ start_list = <<>>
    /\ stop_list = <<>>
    /\ depth_list = <<>>
    /\ mapq_list = <<>>
    /\ start = Unbound
    /\ end = Unbound
    /\ mapq = <<>>
    /\ total_read_length = Unbound
    /\ fetch_log = <<>>
    /\ stdout = <<>>
    /\ seen = <<>>
    /\ results = NoTable

\* the variables of the two other functions while they are not called
FastqIdle ==
    /\ single = FALSE
    /\ rg_lines = <<>>
    /\ command_line = <<>>
    /\ invoked = <<>>
    /\ ortab = <<>>
    /\ fq_return = NoTable

SwitchIdle ==
    /\ pg_header_dict = <<>>
    /\ cram = FALSE
    /\ pg_line = <<>>
    /\ header_sam = <<>>
    /\ sw_invoked = <<>>
    /\ sw_return = NoTable

InitScan ==
    /\ fn = "traverse_bam_fetch"
    /\ pc = "entry"
    /\ error = "none"
    /\ \E a \in ScanArguments :
          /\ samfile = a.samfile
          /\ window_size = a.window_size
    /\ chrom \in Chromosomes
    /\ stdout_observed = TRUE
    /\ call = 1
    /\ first_results = NoTable
    /\ ScanEntry
    /\ FastqIdle
    /\ SwitchIdle

\* line 46: chr_len = get_length(samfile, chrom)
GetLength ==
    /\ fn = "traverse_bam_fetch"
    /\ pc = "entry"
    /\ LET got == get_length(samfile, chrom)
       IN  IF got.raises # "none"
           THEN /\ error' = got.raises
                /\ pc' = "raised"
                /\ UNCHANGED chr_len
           ELSE /\ chr_len' = got.value
                /\ pc' = "windows"
                /\ UNCHANGED error
    /\ UNCHANGED <<fn, samfile, chrom, window_size, num_windows,
                   last_window_len, window_id, window, chr_list, start_list,
                   stop_list, depth_list, mapq_list, start, end, mapq,
                   total_read_length, fetch_log, stdout, stdout_observed,
                   seen, results, call, first_results, fq_vars, sw_vars>>

\* lines 47-62: the window count, the last window's length, the empty lists
ComputeWindows ==
    /\ fn = "traverse_bam_fetch"
    /\ pc = "windows"
    /\ num_windows' = NumWindows(chr_len, window_size)
    /\ last_window_len' = LastWindowLen(chr_len, window_size, num_windows')
    /\ window_id' = 0
    /\ chr_list' = [i \in 1 .. num_windows' |-> chrom]
    /\ start_list' = <<>>
    /\ stop_list' = <<>>
    /\ depth_list' = <<>>
    /\ mapq_list' = <<>>
    /\ start' = 0
    /\ end' = window_size
    /\ pc' = "for"
    /\ UNCHANGED <<fn, error, samfile, chrom, window_size, chr_len, window,
                   mapq, total_read_length, fetch_log, stdout,
                   stdout_observed, seen, results, call, first_results,
                   fq_vars, sw_vars>>

\* lines 63-70: the next window's fetch and the loop over its records
FetchWindow ==
    /\ fn = "traverse_bam_fetch"
    /\ pc = "for"
    /\ NextOfRange(window) < num_windows
    /\ window' = NextOfRange(window)
    /\ LET agg == AggregateWindow(samfile, chrom, start, end)
       IN  /\ mapq' = agg.mapq
           /\ total_read_length' = agg.total_read_length
    /\ fetch_log' = Append(fetch_log,
                        [chrom |-> chrom, start |-> start, end |-> end,
                         returned |-> Fetch(samfile, chrom, start, end)])
    /\ pc' = "append"
    /\ UNCHANGED <<fn, error, samfile, chrom, window_size, chr_len,
                   num_windows, last_window_len, window_id, chr_list,
                   start_list, stop_list, depth_list, mapq_list, start, end,
                   stdout, stdout_observed, seen, results, call,
                   first_results, fq_vars, sw_vars>>

\* lines 71-74: the window's row is appended to the four lists
AppendRow ==
    /\ fn = "traverse_bam_fetch"
    /\ pc = "append"
    /\ start_list' = Append(start_list, start)
    /\ stop_list' = Append(stop_list, end)
    /\ depth_list' = Append(depth_list, TrueDiv(total_read_length, window_size))
    /\ mapq_list' = Append(mapq_list, NpMean(mapq))
    /\ pc' = "advance"
    /\ UNCHANGED <<fn, error, samfile, chrom, window_size, chr_len,
                   num_windows, last_window_len, window_id, window, chr_list,
                   start, end, mapq, total_read_length, fetch_log, stdout,
                   stdout_observed, seen, results, call, first_results,
                   fq_vars, sw_vars>>

\* lines 76-82: window_id is incremented, start and end move on
Advance ==
    /\ fn = "traverse_bam_fetch"
    /\ pc = "advance"
    /\ window_id' = window_id + 1
    /\ start' = NextStart(start, window_id', num_windows, window_size,
                          last_window_len)
    /\ end' = NextEnd(end, window_id', num_windows, window_size,
                      last_window_len)
    /\ pc' = "print"
    /\ UNCHANGED <<fn, error, samfile, chrom, window_size, chr_len,
                   num_windows, last_window_len, window, chr_list, start_list,
                   stop_list, depth_list, mapq_list, mapq, total_read_length,
                   fetch_log, stdout, stdout_observed, seen, results, call,
                   first_results, fq_vars, sw_vars>>

\* lines 84-86: the progress line is printed
PrintProgress ==
    /\ fn = "traverse_bam_fetch"
    /\ pc = "print"
    /\ stdout' = Append(stdout, ProgressLine(window_id, num_windows, chrom))
    /\ seen' = IF stdout_observed THEN Append(seen, stdout'[Len(stdout')])
               ELSE seen
    /\ pc' = "for"
    /\ UNCHANGED <<fn, error, samfile, chrom, window_size, chr_len,
                   num_windows, last_window_len, window_id, window, chr_list,
                   start_list, stop_list, depth_list, mapq_list, start, end,
                   mapq, total_read_length, fetch_log, stdout_observed,
                   results, call, first_results, fq_vars, sw_vars>>

\* lines 88-98: range() is exhausted, the data frame is built and returned
BuildTable ==
    /\ fn = "traverse_bam_fetch"
    /\ pc = "for"
    /\ ~(NextOfRange(window) < num_windows)
    /\ results' = [windows |-> DataFrame(chr_list, start_list, stop_list,
                                         depth_list, mapq_list)]
    /\ pc' = "returned"
    /\ UNCHANGED <<fn, error, samfile, chrom, window_size, chr_len,
                   num_windows, last_window_len, window_id, window, chr_list,
                   start_list, stop_list, depth_list, mapq_list, start, end,
                   mapq, total_read_length, fetch_log, stdout,
                   stdout_observed, seen, call, first_results, fq_vars,
                   sw_vars>>

\* the caller keeps the returned table and calls traverse_bam_fetch again with
\* the same samfile, chrom and window_size; the first call's progress lines
\* were read, the second call's are read or thrown away
CallAgain ==
    /\ fn = "traverse_bam_fetch"
    /\ pc = "returned"
    /\ call = 1
    /\ first_results' = results
    /\ call' = 2
    /\ pc' = "entry"
    /\ stdout_observed' \in BOOLEAN
    /\ chr_len' = Unbound
    /\ num_windows' = Unbound
    /\ last_window_len' = Unbound
    /\ window_id' = Unbound
    /\ window' = Unbound
    /\ chr_list' = <<>>
    /\ start_list' = <<>>
    /\ stop_list' = <<>>
    /\ depth_list' = <<>>
    /\ mapq_list' = <<>>
    /\ start' = Unbound
    /\ end' = Unbound
    /\ mapq' = <<>>
    /\ total_read_length' = Unbound
    /\ fetch_log' = <<>>
    /\ stdout' = <<>>
    /\ seen' = <<>>
    /\ results' = NoTable
    /\ UNCHANGED <<fn, error, samfile, chrom, window_size, fq_vars, sw_vars>>

ScanStep ==
    \/ GetLength
    \/ ComputeWindows
    \/ FetchWindow
    \/ AppendRow
    \/ Advance
    \/ PrintProgress
    \/ BuildTable
    \/ CallAgain

-----------------------------------------------------------------------------
(* bam_to_fastq(samtools_path, repairsh_path, bamfile, single,             *)
(*              output_directory, output_prefix, regions)                  *)

\* the read-group ids the header of the bam file can hold
ReadGroups == {"rg1", "rg2"}

\* a line of full_rg.list: a read-group id, or nothing, before the newline
RGLines == { [text |-> t, newline |-> TRUE] : t \in ReadGroups \cup {""} }

\* line.strip()
Strip(line) == line.text

\* output_directory + "/" + output_prefix + "_" + rg + suffix
FastqPath(rg, suffix) == [prefix |-> "output_prefix", rg |-> rg, suffix |-> suffix]

\* lines 124-129 and 132-133: the two header commands
CollectCommands ==
    << [tool |-> "samtools view -H", during |-> "", outs |-> {"full_rg.list"}],
       [tool |-> "samtools view -H", during |-> "",
        outs |-> {"header_lines_rg.list"}] >>

\* lines 144-147 and 161-163: samtools view | samtools bam2fq
ExtractCommand(rg, is_single) ==
    [tool |-> "samtools bam2fq", during |-> rg,
     outs |-> IF is_single = FALSE THEN {"temp_1.fastq", "temp_2.fastq"}
              ELSE {"temp.fastq"}]

\* lines 149-154 and 165-168: repair.sh
RepairCommand(rg, is_single) ==
    [tool |-> "repair.sh", during |-> rg,
     outs |-> IF is_single = FALSE
              THEN {FastqPath(rg, "_1.fastq"), FastqPath(rg, "_2.fastq")}
              ELSE {FastqPath(rg, ".fastq")}]

\* lines 156-159 and 170-172: the row written to rg_fastq_key.list
KeyRow(rg, is_single) ==
    IF is_single = FALSE
    THEN <<rg, FastqPath(rg, "_1.fastq"), FastqPath(rg, "_2.fastq")>>
    ELSE <<rg, FastqPath(rg, ".fastq")>>

\* the commands one pass of the loop body hands to subprocess.call:
\* the paired branch calls both, the single branch calls the extraction only
InvokedInBody(rg, is_single) ==
    IF is_single = FALSE
    THEN <<ExtractCommand(rg, is_single), RepairCommand(rg, is_single)>>
    ELSE <<ExtractCommand(rg, is_single)>>

InitFastq ==
    /\ fn = "bam_to_fastq"
    /\ pc = "entry"
    /\ error = "none"
    /\ single \in BOOLEAN
    /\ rg_lines \in UNION { [1 .. n -> RGLines] : n \in 0 .. MaxRGLines }
    /\ command_line = <<>>
    /\ invoked = <<>>
    /\ ortab = <<>>
    /\ fq_return = NoTable
    /\ samfile = [references |-> <<>>, lengths |-> <<>>, reads |-> <<>>]
    /\ chrom = ""
    /\ window_size = 1
    /\ stdout_observed = FALSE
    /\ call = 1
    /\ first_results = NoTable
    /\ ScanEntry
    /\ SwitchIdle

\* lines 122-137: the read groups and their header lines are collected
FqCollectReadGroups ==
    /\ fn = "bam_to_fastq"
    /\ pc = "entry"
    /\ invoked' = invoked \o CollectCommands
    /\ command_line' = CollectCommands[2]
    /\ pc' = "for"
    /\ UNCHANGED <<fn, error, single, rg_lines, ortab, fq_return, scan_vars,
                   sw_vars>>

\* lines 138-172: one line of full_rg.list is read and handled
FqReadLine ==
    /\ fn = "bam_to_fastq"
    /\ pc = "for"
    /\ rg_lines # <<>>
    /\ LET rg == Strip(Head(rg_lines))
       IN  IF rg # ""
           THEN /\ invoked' = invoked \o InvokedInBody(rg, single)
                /\ command_line' = RepairCommand(rg, single)
                /\ ortab' = Append(ortab, KeyRow(rg, single))
           ELSE UNCHANGED <<invoked, command_line, ortab>>
    /\ rg_lines' = Tail(rg_lines)
    /\ UNCHANGED <<fn, pc, error, single, fq_return, scan_vars, sw_vars>>

\* line 173: return [out_rg_table, rg_header_lines]
FqReturn ==
    /\ fn = "bam_to_fastq"
    /\ pc = "for"
    /\ rg_lines = <<>>
    /\ fq_return' = <<"rg_fastq_key.list", "header_lines_rg.list">>
    /\ pc' = "returned"
    /\ UNCHANGED <<fn, error, single, rg_lines, command_line, invoked, ortab,
                   scan_vars, sw_vars>>

FastqStep ==
    \/ FqCollectReadGroups
    \/ FqReadLine
    \/ FqReturn

-----------------------------------------------------------------------------
(* switch_sex_chromosomes_bam_sambamba(..., pg_header_dict, cram) and      *)
(* switch_sex_chromosomes_bam_sambamba_output_temps(...)                   *)

SwitchFunctions ==
    { "switch_sex_chromosomes_bam_sambamba",
      "switch_sex_chromosomes_bam_sambamba_output_temps" }

\* the names bound at module level: the imports of lines 3-7
ModuleGlobals == {"division", "print_function", "np", "pd", "subprocess"}

\* the dictionaries a caller passes: 'CL' and 'ID', with or without 'VN'
PgHeaderDicts ==
    { [k \in {"CL", "ID"} |->
          IF k = "CL" THEN <<"xyalign", "--ref", "ref.fa">> ELSE "XYalign"],
      [k \in {"CL", "ID", "VN"} |->
          IF k = "CL" THEN <<"xyalign", "--ref", "ref.fa">>
          ELSE IF k = "ID" THEN "XYalign" ELSE "1.0"] }

\* lines 339-343 (222-226): the list pg_line is bound to, <<>> when the `if`
\* leaves it unbound
PgLine(d) ==
    IF "VN" \in DOMAIN d
    THEN << <<"@PG">>, <<"ID:", d["ID"]>>, <<"VN:", d["VN"]>>,
            <<"CL:", d["CL"]>> >>
    ELSE <<>>

\* lines 330-337 (210-220): the commands that grab and apply the header
HeaderCommands(f) ==
    IF f = "switch_sex_chromosomes_bam_sambamba"
    THEN <<"samtools view -H", "samtools reheader">>
    ELSE <<"samtools view -H", "samtools reheader", "samtools index">>

\* the value returned after the merge
MergedPath(f, is_cram) ==
    IF f = "switch_sex_chromosomes_bam_sambamba" /\ is_cram # FALSE
    THEN "output_prefix.cram"
    ELSE "output_prefix.merged.bam"

\* lines 351-356 and 366-381 (234-253): the strip and merge commands
MergeCommands(f, is_cram) ==
    IF f = "switch_sex_chromosomes_bam_sambamba"
    THEN IF is_cram = FALSE
         THEN <<"sambamba view | sambamba merge">>
         ELSE <<"samtools view", "samtools index", "samtools merge",
                "samtools index">>
    ELSE <<"sambamba view", "samtools index", "samtools merge",
           "samtools index">>

InitSwitch ==
    /\ fn \in SwitchFunctions
    /\ pc = "entry"
    /\ error = "none"
    /\ pg_header_dict \in PgHeaderDicts
    /\ cram \in BOOLEAN
    /\ pg_line = <<>>
    /\ header_sam = <<>>
    /\ sw_invoked = <<>>
    /\ sw_return = NoTable
    /\ samfile = [references |-> <<>>, lengths |-> <<>>, reads |-> <<>>]
    /\ chrom = ""
    /\ window_size = 1
    /\ stdout_observed = FALSE
    /\ call = 1
    /\ first_results = NoTable
    /\ ScanEntry
    /\ FastqIdle

\* lines 329-337 (209-220): header.sam is written, the new bam reheadered
SwGrabHeader ==
    /\ fn \in SwitchFunctions
    /\ pc = "entry"
    /\ sw_invoked' = sw_invoked \o HeaderCommands(fn)
    /\ pc' = "pg"
    /\ UNCHANGED <<fn, error, pg_header_dict, cram, pg_line, header_sam,
                   sw_return, scan_vars, fq_vars>>

\* lines 338-345 (221-228): the @PG line is built and echoed to header.sam;
\* reading pg_line while it is unbound raises UnboundLocalError
SwAddPgLine ==
    /\ fn \in SwitchFunctions
    /\ pc = "pg"
    /\ pg_line' = PgLine(pg_header_dict)
    /\ IF pg_line' = <<>>
       THEN /\ error' = "UnboundLocalError"
            /\ pc' = "raised"
            /\ UNCHANGED <<header_sam, sw_invoked>>
       ELSE /\ header_sam' = Append(header_sam, pg_line')
            /\ sw_invoked' = Append(sw_invoked, "echo >> header.sam")
            /\ pc' = "merge"
            /\ UNCHANGED error
    /\ UNCHANGED <<fn, pg_header_dict, cram, sw_return, scan_vars, fq_vars>>

\* lines 346-382 (229-280): the sex chromosomes are stripped and the files
\* merged; pysam.AlignmentFile raises NameError when pysam is no global
SwStripMerge ==
    /\ fn \in SwitchFunctions
    /\ pc = "merge"
    /\ IF fn = "switch_sex_chromosomes_bam_sambamba_output_temps"
          /\ cram # FALSE
       THEN /\ sw_return' = [none |-> TRUE]
            /\ pc' = "returned"
            /\ UNCHANGED <<error, sw_invoked>>
       ELSE IF "pysam" \notin ModuleGlobals
            THEN /\ error' = "NameError"
                 /\ pc' = "raised"
                 /\ UNCHANGED <<sw_return, sw_invoked>>
            ELSE /\ sw_invoked' = sw_invoked \o MergeCommands(fn, cram)
                 /\ sw_return' = MergedPath(fn, cram)
                 /\ pc' = "returned"
                 /\ UNCHANGED error
    /\ UNCHANGED <<fn, pg_header_dict, cram, pg_line, header_sam, scan_vars,
                   fq_vars>>

SwitchStep ==
    \/ SwGrabHeader
    \/ SwAddPgLine
    \/ SwStripMerge

-----------------------------------------------------------------------------

Init == InitScan \/ InitFastq \/ InitSwitch

Next == ScanStep \/ FastqStep \/ SwitchStep

Spec == Init /\ [][Next]_vars

-----------------------------------------------------------------------------
(* What the properties below are stated in. *)

Scanning == fn = "traverse_bam_fetch"

\* the scan has returned its table
Returned == Scanning /\ pc = "returned"

\* the chromosome is one the source declares
Declared ==
    \E i \in 1 .. Len(samfile.references) : samfile.references[i] = chrom

\* the length the source's metadata pairs with the chromosome's name
DeclaredLength ==
    samfile.lengths[CHOOSE i \in 1 .. Len(samfile.references) :
                        samfile.references[i] = chrom]

\* the rows of the returned table
Table == results.windows

Span(row) == row.stop - row.start

\* the records of the k-th fetch that are neither secondary nor
\* supplementary, by their index in the file
PrimaryOf(k) ==
    { j \in 1 .. Len(samfile.reads) :
        /\ \E i \in 1 .. Len(fetch_log[k].returned) :
              fetch_log[k].returned[i] = j
        /\ ~samfile.reads[j].is_secondary
        /\ ~samfile.reads[j].is_supplementary }

\* the sum of the inferred query lengths of the records J of the file
QueryLengths(J) ==
    SumSeq([j \in 1 .. Len(samfile.reads) |->
               IF j \in J THEN samfile.reads[j].query_length ELSE 0])

\* the sum of the mapping qualities of the records J of the file
Mapqs(J) ==
    SumSeq([j \in 1 .. Len(samfile.reads) |->
               IF j \in J THEN samfile.reads[j].mapping_quality ELSE 0])

QueryLengthsOf(k) == QueryLengths(PrimaryOf(k))

MapqsOf(k) == Mapqs(PrimaryOf(k))

\* depth and mapq are the values the k-th fetch's primary records give
RowAgrees(k, depth, mq) ==
    /\ depth.den > 0
    /\ depth.num * window_size = QueryLengthsOf(k) * depth.den
    /\ IF PrimaryOf(k) = {}
       THEN depth.num = 0 /\ mq = NaN
       ELSE /\ mq.den > 0
            /\ mq.num * Cardinality(PrimaryOf(k)) = MapqsOf(k) * mq.den

-----------------------------------------------------------------------------
(* C1: for every chromosome length L >= 0 and window size W > 0 the        *)
(* returned table has exactly L // W + 1 rows, the first row starts at 0,  *)
(* every later row starts where the row before it stops, and no two rows'  *)
(* half-open intervals [start, stop) overlap.                              *)
WindowsContiguous ==
    Returned =>
        /\ Len(Table) = DeclaredLength \div window_size + 1
        /\ Table[1].start = 0
        /\ \A i \in 2 .. Len(Table) : Table[i].start = Table[i - 1].stop
        /\ \A i, j \in 1 .. Len(Table) :
              i # j => \/ Table[i].stop <= Table[j].start
                       \/ Table[j].stop <= Table[i].start

\* a returned table of at least three windows whose length is no multiple
\* of the window size
WindowsContiguousWitness ==
    /\ Returned
    /\ Len(Table) >= 3
    /\ DeclaredLength % window_size # 0

(* C2: the windows tile the chromosome exactly: the spans of the rows sum  *)
(* to L and the last row stops at L.                                       *)
WindowsTileChromosome ==
    Returned =>
        /\ SumSeq([i \in 1 .. Len(Table) |-> Span(Table[i])]) = DeclaredLength
        /\ Table[Len(Table)].stop = DeclaredLength

(* C3: with N = L // W + 1, every row but the last has span W and starts   *)
(* at index * W; the last row has span W when L % N = 0 and span L % N     *)
(* otherwise; L = 1000 and W = 300 give [0,300), [300,600), [600,900),     *)
(* [900,1200).                                                             *)
LastSpanByCount ==
    Returned =>
        LET L == DeclaredLength
            W == window_size
            N == L \div W + 1
        IN  /\ Len(Table) = N
            /\ \A i \in 1 .. N - 1 :
                  Span(Table[i]) = W /\ Table[i].start = (i - 1) * W
            /\ Span(Table[N]) = IF L % N = 0 THEN W ELSE L % N
            /\ (L = 1000 /\ W = 300) =>
                  [i \in 1 .. N |-> <<Table[i].start, Table[i].stop>>]
                      = << <<0, 300>>, <<300, 600>>, <<600, 900>>,
                           <<900, 1200>> >>

\* a returned table whose last window has the length L % N, not W
LastSpanByCountWitness ==
    /\ Returned
    /\ Len(Table) >= 2
    /\ DeclaredLength % Len(Table) # 0
    /\ Span(Table[Len(Table)]) # window_size

(* C4: a row's depth times the nominal window size W is the sum of the     *)
(* inferred query lengths of the fetched records that are neither          *)
(* secondary nor supplementary, and its mapq is the mean of their mapping  *)
(* qualities; a window with no such record has depth 0 and mapq NaN, and   *)
(* the scan goes on to return a row for every window.                      *)
DepthAndMapqOfPrimaries ==
    Scanning =>
        /\ \A k \in 1 .. Len(depth_list) :
              RowAgrees(k, depth_list[k], mapq_list[k])
        /\ Returned =>
              /\ Len(Table) = Len(fetch_log)
              /\ \A k \in 1 .. Len(Table) :
                    RowAgrees(k, Table[k].depth, Table[k].mapq)

\* a returned table with a row whose fetch held a counted and an uncounted
\* record, and a row whose fetch held no counted record
DepthAndMapqOfPrimariesWitness ==
    /\ Returned
    /\ \E k \in 1 .. Len(Table) :
          /\ PrimaryOf(k) # {}
          /\ Cardinality(PrimaryOf(k)) < Len(fetch_log[k].returned)
          /\ Table[k].depth.num > 0
          /\ Table[k].mapq # NaN
    /\ \E k \in 1 .. Len(Table) :
          /\ PrimaryOf(k) = {}
          /\ k < Len(Table)
          /\ Table[k].mapq = NaN

(* C5: a chromosome the source does not declare makes the call fail with a *)
(* lookup error before any window is computed, any fetch issued, any       *)
(* progress line printed or any table returned; a declared chromosome's    *)
(* length is the one the metadata pairs with its name.                     *)
UnknownReferenceFails ==
    Scanning =>
        /\ ~Declared =>
              /\ pc \in {"entry", "raised"}
              /\ pc = "raised" => error = "KeyError"
              /\ num_windows = Unbound
              /\ start = Unbound
              /\ start_list = <<>>
              /\ fetch_log = <<>>
              /\ stdout = <<>>
              /\ results = NoTable
        /\ Declared =>
              /\ error = "none"
              /\ pc # "raised"
              /\ pc # "entry" => chr_len = DeclaredLength

\* the call on an undeclared chromosome has ended in KeyError
UnknownReferenceFailsWitness ==
    /\ Scanning
    /\ ~Declared
    /\ pc = "raised"
    /\ error = "KeyError"

(* C6: a scan of a declared chromosome is one forward pass that ends: the   *)
(* k-th fetch is for the k-th window in ascending start order, no window   *)
(* is fetched twice, the row of window k is appended and "k out of N" is   *)
(* printed before the fetch of window k+1, and the scan returns a table of *)
(* N = L // W + 1 rows in ascending start order.                           *)
ForwardPass ==
    (Scanning /\ Declared /\ pc \notin {"entry", "windows"}) =>
        LET N == DeclaredLength \div window_size + 1
            F == Len(fetch_log)
        IN  /\ F <= N
            /\ \A k \in 1 .. F :
                  /\ fetch_log[k].chrom = chrom
                  /\ fetch_log[k].start = (k - 1) * window_size
                  /\ fetch_log[k].start < fetch_log[k].end
            /\ \A k \in 1 .. F - 1 :
                  /\ fetch_log[k].start < fetch_log[k + 1].start
                  /\ fetch_log[k].end <= fetch_log[k + 1].start
            /\ Len(start_list) \in {F - 1, F}
            /\ Len(stdout) \in {F - 1, F}
            /\ Len(stdout) <= Len(start_list)
            /\ \A k \in 1 .. Len(start_list) :
                  /\ start_list[k] = fetch_log[k].start
                  /\ stop_list[k] = fetch_log[k].end
            /\ \A k \in 1 .. Len(stdout) :
                  stdout[k] = [window_id |-> k, num_windows |-> N,
                               chrom |-> chrom]
            /\ pc = "returned" =>
                  /\ F = N
                  /\ Len(stdout) = N
                  /\ Len(Table) = N
                  /\ \A k \in 1 .. N :
                        /\ Table[k].chrom = chrom
                        /\ Table[k].start = fetch_log[k].start
                        /\ Table[k].stop = fetch_log[k].end
                  /\ \A k \in 1 .. N - 1 : Table[k].start < Table[k + 1].start

SinglePassTerminates ==
    /\ []ForwardPass
    /\ (Scanning /\ Declared /\ pc = "entry") ~> Returned

\* the second window is being fetched: the first one's row and progress
\* line are there
SinglePassTerminatesWitness ==
    /\ Scanning
    /\ pc = "append"
    /\ Len(fetch_log) = 2
    /\ Len(start_list) = 1
    /\ Len(stdout) = 1

VersionIsOptional ==
    (fn \in SwitchFunctions /\ cram = FALSE) =>
        /\ error = "none"
        /\ pc = "merge" => Len(header_sam) = 1
        /\ pc = "returned" => sw_return = "output_prefix.merged.bam"

(* C9: every fastq path written to the read-group / fastq key table is the *)
(* output of a repair.sh command that was invoked earlier in the call,     *)
(* after the samtools extraction invoked for that read group.              *)
ListedFastqWasProduced ==
    fn = "bam_to_fastq" =>
        \A r \in 1 .. Len(ortab) :
            \A c \in 2 .. Len(ortab[r]) :
                \E i, j \in 1 .. Len(invoked) :
                    /\ i < j
                    /\ invoked[i].tool = "samtools bam2fq"
                    /\ invoked[i].during = ortab[r][1]
                    /\ invoked[j].tool = "repair.sh"
                    /\ invoked[j].during = ortab[r][1]
                    /\ ortab[r][c] \in invoked[j].outs

(* C10: depth is accumulated per fetch: a primary record returned by the   *)
(* fetches of m windows adds its whole inferred query length to each of    *)
(* the m rows, so the sum over the rows of depth * W is the sum over the   *)
(* primary records of length times the number of fetches that returned     *)
(* them, which can exceed the total length of the primary records.         *)
TimesFetched(j, n) ==
    Cardinality({ k \in 1 .. n :
                    \E i \in 1 .. Len(fetch_log[k].returned) :
                        fetch_log[k].returned[i] = j })

IsPrimary(j) ==
    ~samfile.reads[j].is_secondary /\ ~samfile.reads[j].is_supplementary

\* depth * W of the k-th row, a whole number
RowBases(k) == (depth_list[k].num * window_size) \div depth_list[k].den

DepthCountsEveryFetch ==
    Scanning =>
        LET n == Len(depth_list)
        IN  /\ \A k \in 1 .. n :
                  (depth_list[k].num * window_size) % depth_list[k].den = 0
            /\ \A k \in 1 .. n : \A j \in PrimaryOf(k) :
                  RowBases(k) >= samfile.reads[j].query_length
            /\ SumSeq([k \in 1 .. n |-> RowBases(k)])
                 = SumSeq([j \in 1 .. Len(samfile.reads) |->
                              IF IsPrimary(j)
                              THEN samfile.reads[j].query_length
                                       * TimesFetched(j, n)
                              ELSE 0])

\* a primary record was returned by two fetches, and the rows hold more
\* bases than the primary records of the chromosome have
DepthCountsEveryFetchWitness ==
    /\ Returned
    /\ \E j \in 1 .. Len(samfile.reads) :
          IsPrimary(j) /\ TimesFetched(j, Len(depth_list)) = 2
    /\ SumSeq([k \in 1 .. Len(depth_list) |-> RowBases(k)])
         > QueryLengths({ j \in 1 .. Len(samfile.reads) :
                             IsPrimary(j) /\ samfile.reads[j].ref = chrom })

\* the scheduling of a single-threaded call: it runs until it returns/raises
FairSpec == Spec /\ WF_vars(Next)

=============================================================================
